---- MODULE Spec2Model ----
(***************************************************************************)
(* Model of update-headers.py: the copyright-header rewriter.              *)
(*                                                                         *)
(* Text is modelled at the character level: a string is a sequence of      *)
(* one-character strings, a file's content is such a sequence, and the     *)
(* Python string methods the script uses (strip, startswith, endswith,     *)
(* "in", str, readlines, writelines) are computed on those sequences.      *)
(* The file system is a function from a path (its tuple of segments) to    *)
(* the file's content.  Newline handling is the POSIX one: reading in      *)
(* text mode translates "\r\n" and "\r" to "\n", writing writes "\n".      *)
(* A file may be marked to fail when it is read, when it is opened for     *)
(* writing, or while it is written (which leaves it truncated or holding   *)
(* only the header).  The CHECKING/UPDATING/ADDING log lines are left out; *)
(* the final report of main() is kept.                                     *)
(***************************************************************************)
EXTENDS Integers, Sequences, FiniteSets, TLC

VARIABLES
    CURRENT_YEAR,   \* datetime.now().year, read once when the module loads
    disk,           \* the files: path (tuple of segments) -> content
    faults,         \* per file: "ok", or the step of the rewrite that fails
    argv,           \* sys.argv[1:]: <<>> or <<path>>
    pc,             \* position of main(): "start", "walk", "done", "aborted"
    todo,           \* os.walk: directories still to be yielded (a stack)
    root,           \* os.walk: the directory of the current iteration
    files,          \* os.walk: files of `root` not yet passed to process_file
    updated_count,  \* main's counter
    console,        \* the final report main() printed, <<>> before it
    visited,        \* history: the path strings this run passed to process_file, in order
    wlog,           \* history: every (file, header text) this run opened for writing
    runs,           \* how many times the script has been started
    hist,           \* history: per completed run, the disk it left and its year
    disk0           \* history: the disk before the first run

vars == <<CURRENT_YEAR, disk, faults, argv, pc, todo, root, files,
          updated_count, console, visited, wlog, runs, hist, disk0>>

---------------------------------------------------------------------------
(* Python string primitives on character sequences *)

\* the characters str.strip() removes, among those that occur in the model
Whitespace == {" ", "\t", "\n", "\r", "\f"}

RECURSIVE lstrip(_)
lstrip(s) ==
    IF s # <<>> /\ Head(s) \in Whitespace THEN lstrip(Tail(s)) ELSE s

RECURSIVE rstrip(_)
rstrip(s) ==
    IF s # <<>> /\ s[Len(s)] \in Whitespace
    THEN rstrip(SubSeq(s, 1, Len(s) - 1))
    ELSE s

strip(s) == rstrip(lstrip(s))

startswith(s, p) == Len(s) >= Len(p) /\ SubSeq(s, 1, Len(p)) = p

endswith(s, p) == Len(s) >= Len(p) /\ SubSeq(s, Len(s) - Len(p) + 1, Len(s)) = p

\* Python's `sub in s`
contains(s, sub) ==
    \E i \in 1..(Len(s) - Len(sub) + 1) : SubSeq(s, i, i + Len(sub) - 1) = sub

\* letter case: used to state properties and by a variant of IsTsPath
UpperLetters == <<"A", "B", "C", "D", "E", "F", "G", "H", "I", "J", "K", "L", "M", "N", "O", "P", "Q", "R", "S", "T", "U", "V", "W", "X", "Y", "Z">>

LowerLetters == <<"a", "b", "c", "d", "e", "f", "g", "h", "i", "j", "k", "l", "m", "n", "o", "p", "q", "r", "s", "t", "u", "v", "w", "x", "y", "z">>

ToLower(ch) ==
    IF \E i \in 1..26 : UpperLetters[i] = ch
    THEN LowerLetters[CHOOSE i \in 1..26 : UpperLetters[i] = ch]
    ELSE ch

Lowered(line) == [i \in 1..Len(line) |-> ToLower(line[i])]

DigitChars == <<"0", "1", "2", "3", "4", "5", "6", "7", "8", "9">>

\* str(n) of a non-negative integer
RECURSIVE str(_)
str(n) ==
    IF n < 10
    THEN <<DigitChars[n + 1]>>
    ELSE str(n \div 10) \o <<DigitChars[(n % 10) + 1]>>

\* index of the first occurrence of character c in s at or after start, 0 if none
Find(s, c, start) ==
    IF \E i \in start..Len(s) : s[i] = c
    THEN CHOOSE i \in start..Len(s) :
             s[i] = c /\ \A j \in start..(i - 1) : s[j] # c
    ELSE 0

\* text-mode read: universal newlines ("\r\n" and "\r" become "\n")
RECURSIVE translate(_)
translate(s) ==
    LET i == Find(s, "\r", 1)
    IN  IF i = 0 THEN s
        ELSE SubSeq(s, 1, i - 1) \o <<"\n">> \o
             translate(SubSeq(s, IF i < Len(s) /\ s[i + 1] = "\n" THEN i + 2 ELSE i + 1,
                              Len(s)))

RECURSIVE LinesFrom(_, _)
LinesFrom(s, start) ==
    IF start > Len(s) THEN <<>>
    ELSE LET e == Find(s, "\n", start)
         IN  IF e = 0
             THEN <<SubSeq(s, start, Len(s))>>
             ELSE <<SubSeq(s, start, e)>> \o LinesFrom(s, e + 1)

\* f.readlines(): the lines, each keeping its "\n" (the last may have none)
readlines(content) == LinesFrom(translate(content), 1)

\* f.writelines(lines): the concatenation
RECURSIVE writelines(_)
writelines(lines) ==
    IF lines = <<>> THEN <<>> ELSE Head(lines) \o writelines(Tail(lines))

---------------------------------------------------------------------------
(* Configuration *)

COPYRIGHT_HOLDER == <<"s", "0", "u", "p", " ", "a", "n", "d", " ", "t", "h", "e", " ", "a", "u", "t", "o", "b", "r", "r", " ", "c", "o", "n", "t", "r", "i", "b", "u", "t", "o", "r", "s">>

START_YEAR == 2025

\* mutant: >= for >
COPYRIGHT_YEAR_FromStart ==
    IF CURRENT_YEAR >= START_YEAR
    THEN str(START_YEAR) \o <<"-">> \o str(CURRENT_YEAR)
    ELSE str(START_YEAR)

COPYRIGHT_YEAR ==
    IF CURRENT_YEAR > START_YEAR
    THEN str(START_YEAR) \o <<"-">> \o str(CURRENT_YEAR)
    ELSE str(START_YEAR)

LICENSE == <<"G", "P", "L", "-", "2", ".", "0", "-", "o", "r", "-", "l", "a", "t", "e", "r">>

EXCLUDED_DIRS ==
    { <<".", "g", "i", "t">>,
      <<"n", "o", "d", "e", "_", "m", "o", "d", "u", "l", "e", "s">>,
      <<"d", "i", "s", "t">>,
      <<"b", "u", "i", "l", "d">>,
      <<"v", "e", "n", "d", "o", "r">> }

CopyrightPrefix == <<"C", "o", "p", "y", "r", "i", "g", "h", "t", " ", "(", "c", ")", " ">>

SpdxPrefix == <<"S", "P", "D", "X", "-", "L", "i", "c", "e", "n", "s", "e", "-", "I", "d", "e", "n", "t", "i", "f", "i", "e", "r", ":", " ">>

\* the four lines of the TypeScript/TSX header
TS_HEADER_LINES ==
    << <<"/", "*", "\n">>,
       <<" ", "*", " ">> \o CopyrightPrefix \o COPYRIGHT_YEAR \o <<",", " ">>
           \o COPYRIGHT_HOLDER \o <<".", "\n">>,
       <<" ", "*", " ">> \o SpdxPrefix \o LICENSE \o <<"\n">>,
       <<" ", "*", "/", "\n">> >>

TS_HEADER == writelines(TS_HEADER_LINES)

\* the two lines of the Go header
GO_HEADER_LINES ==
    << <<"/", "/", " ">> \o CopyrightPrefix \o COPYRIGHT_YEAR \o <<",", " ">>
           \o COPYRIGHT_HOLDER \o <<".", "\n">>,
       <<"/", "/", " ">> \o SpdxPrefix \o LICENSE \o <<"\n">> >>

GO_HEADER == writelines(GO_HEADER_LINES)

---------------------------------------------------------------------------
(* has_copyright_header *)

\* mutant: only the capitalised spelling is looked for
MentionsCopyright_Capital(line) ==
    contains(line, <<"C", "o", "p", "y", "r", "i", "g", "h", "t">>)

\* "Copyright" in line or "copyright" in line
MentionsCopyright(line) ==
    \/ contains(line, <<"C", "o", "p", "y", "r", "i", "g", "h", "t">>)
    \/ contains(line, <<"c", "o", "p", "y", "r", "i", "g", "h", "t">>)

has_copyright_header(lines, is_typescript) ==
    IF lines = <<>> THEN FALSE
    ELSE IF is_typescript
    THEN /\ Len(lines) >= 4
         /\ startswith(strip(lines[1]), <<"/", "*">>)
         /\ \E i \in 1..4 : MentionsCopyright(lines[i])
         /\ \E i \in 1..4 : contains(lines[i], <<"*", "/">>)
    ELSE /\ Len(lines) >= 2
         /\ \E i \in 1..2 : MentionsCopyright(lines[i])


---------------------------------------------------------------------------
(* process_file *)

RECURSIVE SplitOn(_, _, _, _)
SplitOn(s, sep, start, i) ==
    IF i > Len(s)
    THEN <<SubSeq(s, start, Len(s))>>
    ELSE IF s[i] = sep
         THEN <<SubSeq(s, start, i - 1)>> \o SplitOn(s, sep, i + 1, i + 1)
         ELSE SplitOn(s, sep, start, i + 1)

IsName(seg) == seg # <<>> /\ seg # <<".">>

\* the file a relative path string names: its segments, "." and "" dropped
resolve(path) == SelectSeq(SplitOn(path, "/", 1, 1), IsName)

\* os.path.join(a, b) for a relative b
join(a, b) == a \o <<"/">> \o b

\* mutant: the leading blank lines are not stripped
StripLeadingBlank_Kept(remaining_lines) == remaining_lines

\* mutant: an `if` for the `while`: one leading blank line is stripped
StripLeadingBlank_Once(remaining_lines) ==
    IF remaining_lines # <<>> /\ strip(Head(remaining_lines)) = <<>>
    THEN Tail(remaining_lines)
    ELSE remaining_lines

\* the while loop that pops the leading blank lines
RECURSIVE StripLeadingBlank(_)
StripLeadingBlank(remaining_lines) ==
    IF remaining_lines # <<>> /\ strip(Head(remaining_lines)) = <<>>
    THEN StripLeadingBlank(Tail(remaining_lines))
    ELSE remaining_lines

\* the lines kept as body: the old header dropped when one is detected
RemainingLines(original_lines, lines_to_remove, is_typescript) ==
    IF has_copyright_header(original_lines, is_typescript)
    THEN SubSeq(original_lines, lines_to_remove + 1, Len(original_lines))
    ELSE original_lines

\* what the `with open(file_path, 'w')` block writes
NewContent(original_lines, header_to_apply, lines_to_remove, is_typescript) ==
    header_to_apply \o <<"\n">> \o
    writelines(StripLeadingBlank(
        RemainingLines(original_lines, lines_to_remove, is_typescript)))

\* mutant: the extension is matched whatever its letter case
IsTsPath_AnyCase(file_path) ==
    \/ endswith(Lowered(file_path), <<".", "t", "s">>)
    \/ endswith(Lowered(file_path), <<".", "t", "s", "x">>)

IsTsPath(file_path) ==
    \/ endswith(file_path, <<".", "t", "s">>)
    \/ endswith(file_path, <<".", "t", "s", "x">>)

IsGoPath(file_path) == endswith(file_path, <<".", "g", "o">>)

\* The body of the try block on disk d with fault table f: the set of
\* possible outcomes.  exc = an exception left the block.  A failed write
\* leaves the file truncated or holding only what was flushed.
TryBlock(file_path, d, f, header_to_apply, lines_to_remove, is_typescript) ==
    LET file == resolve(file_path)
        new  == NewContent(readlines(d[file]), header_to_apply,
                           lines_to_remove, is_typescript)
        opened == {[file |-> file, header |-> header_to_apply]}
    IN  IF file \notin DOMAIN d \/ f[file] = "read"
        THEN {[disk |-> d, exc |-> TRUE, wrote |-> {}]}
        ELSE IF f[file] = "open_w"
        THEN {[disk |-> d, exc |-> TRUE, wrote |-> {}]}
        ELSE IF f[file] = "write"
        THEN {[disk |-> [d EXCEPT ![file] = part], exc |-> TRUE, wrote |-> opened] :
                 part \in {<<>>, header_to_apply}}
        ELSE {[disk |-> [d EXCEPT ![file] = new], exc |-> FALSE, wrote |-> opened]}

\* mutant: no except clause, the exception leaves process_file
Guarded_Propagates(outcomes) ==
    {[disk |-> o.disk, wrote |-> o.wrote, raised |-> o.exc,
      result |-> IF o.exc THEN <<>> ELSE <<1>>] : o \in outcomes}

\* `except Exception` turns every exception of the block into `return 0`
Guarded(outcomes) ==
    {[disk |-> o.disk, wrote |-> o.wrote, raised |-> FALSE,
      result |-> IF o.exc THEN <<0>> ELSE <<1>>] : o \in outcomes}

\* process_file(file_path): the set of possible outcomes.  result is <<>>
\* for None, <<1>> or <<0>> otherwise; raised = an exception reached main.
process_file(file_path, d, f) ==
    IF IsTsPath(file_path)
    THEN Guarded(TryBlock(file_path, d, f, TS_HEADER, 4, TRUE))
    ELSE IF IsGoPath(file_path)
    THEN Guarded(TryBlock(file_path, d, f, GO_HEADER, 2, FALSE))
    ELSE {[disk |-> d, wrote |-> {}, raised |-> FALSE, result |-> <<>>]}

\* `if result:`
Truthy(result) == result # <<>> /\ result[1] # 0

---------------------------------------------------------------------------
(* main *)

MaxRuns == 2

MaxYearsAhead == 2

MaxYearsBack == 1

IsPrefix(p, k) == Len(p) <= Len(k) /\ SubSeq(k, 1, Len(p)) = p

\* os.walk's listing of directory dir: its files and its subdirectories
ListFiles(d, dir) ==
    {k[Len(k)] : k \in {k \in DOMAIN d : Len(k) = Len(dir) + 1 /\ IsPrefix(dir, k)}}

ListDirs(d, dir) ==
    {k[Len(dir) + 1] : k \in {k \in DOMAIN d : Len(k) > Len(dir) + 1 /\ IsPrefix(dir, k)}}

\* all orders in which the names of a listing can come
Orders(S) ==
    {q \in [1..Cardinality(S) -> S] : \A i, j \in 1..Cardinality(S) : q[i] = q[j] => i = j}

\* single-file mode: lines 102-110
MainSingleFile ==
    /\ pc = "start"
    /\ Len(argv) > 0
    /\ \E o \in process_file(argv[1], disk, faults) :
          /\ disk' = o.disk
          /\ wlog' = wlog \cup o.wrote
          /\ pc' = IF o.raised THEN "aborted" ELSE "done"
          /\ console' = IF o.raised THEN <<>>
                        ELSE IF Truthy(o.result) THEN <<"Successfully updated">>
                        ELSE <<"No update needed">>
          /\ hist' = IF o.raised THEN hist
                     ELSE Append(hist, [disk |-> o.disk, year |-> CURRENT_YEAR])
    /\ visited' = Append(visited, argv[1])
    /\ UNCHANGED <<CURRENT_YEAR, faults, argv, todo, root, files,
                   updated_count, runs, disk0>>

\* full-tree mode: lines 113-117, up to the first os.walk iteration
MainStartWalk ==
    /\ pc = "start"
    /\ Len(argv) = 0
    /\ updated_count' = 0
    /\ todo' = << <<".">> >>
    /\ files' = {}
    /\ pc' = "walk"
    /\ UNCHANGED <<CURRENT_YEAR, disk, faults, argv, root, console, visited,
                   wlog, runs, hist, disk0>>

\* mutant: line 119 is missing, no directory is pruned
WalkDir_NoPrune ==
    /\ pc = "walk"
    /\ files = {}
    /\ todo # <<>>
    /\ LET top  == Head(todo)
           dirs == ListDirs(disk, resolve(top))
       IN  /\ root' = top
           /\ files' = ListFiles(disk, resolve(top))
           /\ \E q \in Orders(dirs) :
                 todo' = [i \in 1..Len(q) |-> join(top, q[i])] \o Tail(todo)
    /\ UNCHANGED <<CURRENT_YEAR, disk, faults, argv, pc, updated_count,
                   console, visited, wlog, runs, hist, disk0>>

\* mutant: entering a directory forgets the directories still to be walked
WalkDir_DropsSiblings ==
    /\ pc = "walk"
    /\ files = {}
    /\ todo # <<>>
    /\ LET top  == Head(todo)
           dirs == {dn \in ListDirs(disk, resolve(top)) : dn \notin EXCLUDED_DIRS}
       IN  /\ root' = top
           /\ files' = ListFiles(disk, resolve(top))
           /\ \E q \in Orders(dirs) :
                 todo' = [i \in 1..Len(q) |-> join(top, q[i])]
    /\ UNCHANGED <<CURRENT_YEAR, disk, faults, argv, pc, updated_count,
                   console, visited, wlog, runs, hist, disk0>>

\* os.walk yields the next directory and line 119 prunes its dirs
WalkDir ==
    /\ pc = "walk"
    /\ files = {}
    /\ todo # <<>>
    /\ LET top  == Head(todo)
           dirs == {dn \in ListDirs(disk, resolve(top)) : dn \notin EXCLUDED_DIRS}
       IN  /\ root' = top
           /\ files' = ListFiles(disk, resolve(top))
           /\ \E q \in Orders(dirs) :
                 todo' = [i \in 1..Len(q) |-> join(top, q[i])] \o Tail(todo)
    /\ UNCHANGED <<CURRENT_YEAR, disk, faults, argv, pc, updated_count,
                   console, visited, wlog, runs, hist, disk0>>

\* one iteration of `for file in files`: lines 121-125
VisitFile ==
    /\ pc = "walk"
    /\ \E file \in files :
          LET file_path == join(root, file)
          IN  /\ files' = files \ {file}
              /\ visited' = Append(visited, file_path)
              /\ \E o \in process_file(file_path, disk, faults) :
                    /\ disk' = o.disk
                    /\ wlog' = wlog \cup o.wrote
                    /\ pc' = IF o.raised THEN "aborted" ELSE "walk"
                    /\ updated_count' = IF Truthy(o.result)
                                        THEN updated_count + o.result[1]
                                        ELSE updated_count
    /\ UNCHANGED <<CURRENT_YEAR, faults, argv, todo, root, console, runs,
                   hist, disk0>>

\* the walk is exhausted: lines 127-129
MainSummary ==
    /\ pc = "walk"
    /\ files = {}
    /\ todo = <<>>
    /\ console' = <<"Files updated", updated_count>>
    /\ pc' = "done"
    /\ hist' = Append(hist, [disk |-> disk, year |-> CURRENT_YEAR])
    /\ UNCHANGED <<CURRENT_YEAR, disk, faults, argv, todo, root, files,
                   updated_count, visited, wlog, runs, disk0>>

\* The script is started again with the same arguments; the new process
\* reads the clock again (line 7), which may by then show the next year.
Rerun ==
    /\ pc = "done"
    /\ runs < MaxRuns
    /\ runs' = runs + 1
    /\ pc' = "start"
    /\ console' = <<>>
    /\ \E y \in {CURRENT_YEAR, CURRENT_YEAR + 1} :
          /\ y <= START_YEAR + MaxYearsAhead
          /\ CURRENT_YEAR' = y
    /\ visited' = <<>>
    /\ wlog' = {}
    /\ UNCHANGED <<disk, faults, argv, todo, root, files,
                   updated_count, hist, disk0>>

---------------------------------------------------------------------------
(* Initial states *)

Ready ==
    /\ pc = "start"
    /\ todo = <<>>
    /\ root = <<>>
    /\ files = {}
    /\ updated_count = 0
    /\ console = <<>>
    /\ visited = <<>>
    /\ wlog = {}
    /\ runs = 1
    /\ hist = <<>>
    /\ disk0 = disk

\* file contents are built from these pieces
Pieces ==
    { <<" ", "\t", "\r", "\n">>,
      <<" ", "/", "*", "\n">>,
      <<" ", "*", " ", "C", "o", "p", "y", "r", "i", "g", "h", "t", " ", "*", "/", "\n">>,
      <<"/", "*", " ", "C", "O", "P", "Y", "R", "I", "G", "H", "T", " ", "*", "/", "\n">>,
      <<"/", "/", " ", "c", "o", "p", "y", "r", "i", "g", "h", "t", "\n">>,
      <<"x", "\n">> }

MaxPieces == 4

RECURSIVE ContentsUpTo(_)
ContentsUpTo(n) ==
    IF n = 0 THEN {<<>>}
    ELSE LET shorter == ContentsUpTo(n - 1)
         IN  shorter \cup {c \o p : c \in shorter, p \in Pieces}

FilePaths ==
    { <<"a", ".", "t", "s">>, <<"c", ".", "g", "o">> }

MorePaths ==
    FilePaths \cup { <<"b", ".", "t", "s", "x">> }

\* one file, named on the command line, of any content, in the last year
InitFile ==
    /\ CURRENT_YEAR = START_YEAR + MaxYearsAhead
    /\ \E name \in FilePaths, content \in ContentsUpTo(MaxPieces) :
          /\ disk = (<<name>> :> content)
          /\ faults = (<<name>> :> "ok")
          /\ argv = <<name>>
    /\ Ready

\* one file, named on the command line, of little content, in any year
InitYear ==
    /\ CURRENT_YEAR \in (START_YEAR - MaxYearsBack)..(START_YEAR + MaxYearsAhead)
    /\ \E name \in MorePaths, content \in ContentsUpTo(1) :
          /\ disk = (<<name>> :> content)
          /\ faults = (<<name>> :> "ok")
          /\ argv = <<name>>
    /\ Ready

FaultModes == {"ok", "read", "open_w", "write"}

DirNames == EXCLUDED_DIRS \cup { <<"s", "r", "c">> }

MaxDepth == 2

RECURSIVE DirPathsUpTo(_)
DirPathsUpTo(n) ==
    IF n = 0 THEN {<<>>}
    ELSE LET shorter == DirPathsUpTo(n - 1)
         IN  shorter \cup {Append(dir, dn) : dir \in shorter, dn \in DirNames}

FileNames ==
    { <<"a", ".", "t", "s">>, <<"b", ".", "t", "s", "x">>, <<"c", ".", "g", "o">>,
      <<"d", ".", "T", "S">>, <<"e", ".", "t", "x", "t">>, <<"g", "o">> }

\* the path string of a file, relative to the working directory
RECURSIVE PathString(_)
PathString(file) ==
    IF Len(file) = 1 THEN file[1]
    ELSE join(file[1], PathString(Tail(file)))

PlainText == <<"x", "\n">>

StaleGoText == <<"/", "/", " ", "c", "o", "p", "y", "r", "i", "g", "h", "t", "\n", "\n", "\n", "x", "\n">>

\* a tree with one file m.go at the top and one file anywhere below it;
\* the script is run on the tree or on that file
InitTree ==
    /\ CURRENT_YEAR = START_YEAR + MaxYearsAhead
    /\ \E dir \in DirPathsUpTo(MaxDepth), name \in FileNames,
          fm \in {"ok", "write"}, single \in BOOLEAN :
          LET probe  == Append(dir, name)
              anchor == << <<"m", ".", "g", "o">> >>
          IN  /\ disk = (probe :> PlainText) @@ (anchor :> StaleGoText)
              /\ faults = (probe :> fm) @@ (anchor :> "ok")
              /\ argv = IF single THEN <<PathString(probe)>> ELSE <<>>
    /\ Ready

FaultTreeFiles ==
    { << <<"a", ".", "t", "s">> >>,
      << <<"c", ".", "g", "o">> >>,
      << <<"s", "r", "c">>, <<"b", ".", "t", "s", "x">> >>,
      << <<"l", "i", "b">>, <<"e", ".", "t", "x", "t">> >> }

\* a tree of four files in three directories, any of which may fail
InitFaults ==
    /\ CURRENT_YEAR = START_YEAR + MaxYearsAhead
    /\ disk \in [FaultTreeFiles -> {StaleGoText}]
    /\ faults \in [FaultTreeFiles -> FaultModes]
    /\ argv = <<>>
    /\ Ready

Init == InitTree \/ InitFaults

Next ==
    \/ MainSingleFile
    \/ MainStartWalk
    \/ WalkDir
    \/ VisitFile
    \/ MainSummary
    \/ Rerun

Spec == Init /\ [][Next]_vars

NextFile == MainSingleFile \/ Rerun

SpecFile == (InitFile \/ InitYear) /\ [][NextFile]_vars

---------------------------------------------------------------------------
(* Vocabulary of the properties *)

\* the suffix of a file name from its last ".", <<>> when it has none
Extension(name) ==
    LET dots == {i \in 1..Len(name) : name[i] = "."}
    IN  IF dots = {} THEN <<>>
        ELSE SubSeq(name, CHOOSE i \in dots : \A j \in dots : j <= i, Len(name))

KindOf(file) ==
    LET e == Extension(file[Len(file)])
    IN  IF e \in { <<".", "t", "s">>, <<".", "t", "s", "x">> } THEN "ts"
        ELSE IF e = <<".", "g", "o">> THEN "go"
        ELSE "none"

HeaderLinesOf(file) == IF KindOf(file) = "ts" THEN TS_HEADER_LINES ELSE GO_HEADER_LINES

IsBlankLine(line) == \A i \in 1..Len(line) : line[i] \in Whitespace

\* index of the first line that is not blank, 0 when every line is blank
FirstNonBlank(lines) ==
    LET idx == {i \in 1..Len(lines) : ~IsBlankLine(lines[i])}
    IN  IF idx = {} THEN 0 ELSE CHOOSE i \in idx : \A j \in idx : i <= j

\* the disk the run that just completed started from
PreDisk == IF Len(hist) <= 1 THEN disk0 ELSE hist[Len(hist) - 1].disk

\* the run that just completed was a single-file run that reported success
RewroteArgument ==
    /\ pc = "done"
    /\ Len(argv) = 1
    /\ console = <<"Successfully updated">>

TheFile == resolve(argv[1])

---------------------------------------------------------------------------
(* C1 *)

\* C1: two successive runs in the same copyright year leave every file
\* after the later run byte-identical to the file after the earlier one.
C1_Idempotent ==
    \A i \in 2..Len(hist) :
        hist[i].year = hist[i - 1].year => hist[i].disk = hist[i - 1].disk

\* a file without a header and with leading blank lines was given a header by
\* run 1, run 2 recognised that header, and the file did not change
C1_Witness ==
    /\ Len(hist) >= 2
    /\ hist[2].year = hist[1].year
    /\ \E f \in DOMAIN disk0 :
          /\ Len(disk0[f]) > 0
          /\ IsBlankLine(readlines(disk0[f])[1])
          /\ ~has_copyright_header(readlines(disk0[f]), KindOf(f) = "ts")
          /\ has_copyright_header(readlines(hist[1].disk[f]), KindOf(f) = "ts")
          /\ hist[1].disk[f] # disk0[f]
          /\ hist[2].disk[f] = hist[1].disk[f]

---------------------------------------------------------------------------
(* C3 *)

\* C3: after a successful rewrite the file is the header, one blank line,
\* and then the body from its first non-blank line on (nothing more when
\* the body has no non-blank line), however many blank lines the body
\* began with.
C3_BlankLineNormalization ==
    RewroteArgument =>
        LET out  == readlines(disk[TheFile])
            hdr  == HeaderLinesOf(TheFile)
            n    == Len(hdr)
            body == RemainingLines(readlines(PreDisk[TheFile]), n,
                                   KindOf(TheFile) = "ts")
            k    == FirstNonBlank(body)
        IN  /\ Len(out) >= n + 1
            /\ SubSeq(out, 1, n) = hdr
            /\ out[n + 1] = <<"\n">>
            /\ IF k = 0
               THEN Len(out) = n + 1
               ELSE /\ SubSeq(out, n + 2, Len(out)) = SubSeq(body, k, Len(body))
                    /\ ~IsBlankLine(out[n + 2])

\* a body that began with two or more blank lines was rewritten
C3_Witness ==
    /\ RewroteArgument
    /\ FirstNonBlank(RemainingLines(readlines(PreDisk[TheFile]),
                                    Len(HeaderLinesOf(TheFile)),
                                    KindOf(TheFile) = "ts")) >= 3

---------------------------------------------------------------------------
(* C7 *)

\* "copyright" in any mix of upper and lower case
AnySpelling(line) ==
    contains(Lowered(line), <<"c", "o", "p", "y", "r", "i", "g", "h", "t">>)

\* exactly "Copyright" or "copyright"
TwoSpellings(line) ==
    \E first \in {"C", "c"} :
        contains(line, <<first, "o", "p", "y", "r", "i", "g", "h", "t">>)

\* the detection rule, for a given reading of "mentions copyright"
DetectsWith(Mentions(_), lines, kind) ==
    LET n     == IF kind = "ts" THEN 4 ELSE 2
        first == SubSeq(lines, 1, n)
    IN  /\ Len(lines) >= n
        /\ \E i \in 1..n : Mentions(first[i])
        /\ kind = "ts" =>
              /\ startswith(lstrip(first[1]), <<"/", "*">>)
              /\ \E i \in 1..n : contains(first[i], <<"*", "/">>)

\* the file a rewrite leaves when the header is detected by the given rule
OutputWith(Mentions(_), file, original) ==
    LET lines == readlines(original)
        hdr   == HeaderLinesOf(file)
        body  == IF DetectsWith(Mentions, lines, KindOf(file))
                 THEN SubSeq(lines, Len(hdr) + 1, Len(lines))
                 ELSE lines
        k     == FirstNonBlank(body)
    IN  writelines(hdr) \o <<"\n">> \o
        (IF k = 0 THEN <<>> ELSE writelines(SubSeq(body, k, Len(body))))

\* what the completed run decided about the file it read, what the next run
\* would decide about the file it left, and the file it left
DetectionIs(Mentions(_)) ==
    pc = "done" =>
        /\ \A f \in DOMAIN disk : \A content \in {PreDisk[f], disk[f]} :
              has_copyright_header(readlines(content), KindOf(f) = "ts")
                  <=> DetectsWith(Mentions, readlines(content), KindOf(f))
        /\ RewroteArgument =>
              disk[TheFile] = OutputWith(Mentions, TheFile, PreDisk[TheFile])

\* C7 as stated: a header is detected iff the file has at least 4 (2 for
\* Go) lines, one of the first 4 (2) mentions "copyright" in any letter
\* case and, for the block-comment kind, the first line starts with "/*"
\* after trimming and one of the first 4 contains "*/"; otherwise the whole
\* content is kept as body.
C7_AsStated == DetectionIs(AnySpelling)

\* C7 as amended: the same, with "copyright" matched in exactly the two
\* spellings "Copyright" and "copyright".
C7_Detection == DetectionIs(TwoSpellings)

\* a file whose first lines mention COPYRIGHT in capitals was rewritten
C7_Witness ==
    /\ RewroteArgument
    /\ DetectsWith(AnySpelling, readlines(PreDisk[TheFile]), KindOf(TheFile))
    /\ ~DetectsWith(TwoSpellings, readlines(PreDisk[TheFile]), KindOf(TheFile))
    /\ Len(readlines(disk[TheFile])) =
           Len(readlines(PreDisk[TheFile])) + Len(HeaderLinesOf(TheFile)) + 1

---------------------------------------------------------------------------
(* C2 and C10 *)

IsSuffix(t, s) == Len(t) <= Len(s) /\ SubSeq(s, Len(s) - Len(t) + 1, Len(s)) = t

IsCommentLine(line) ==
    \/ \E open \in { <<"/", "/">>, <<"/", "*">>, <<"*">> } : startswith(lstrip(line), open)
    \/ contains(line, <<"*", "/">>)

\* the lines begin with a comment that mentions copyright: a header block
BeginsWithHeader(lines, kind) ==
    /\ lines # <<>>
    /\ IF kind = "ts"
       THEN /\ startswith(lstrip(lines[1]), <<"/", "*">>)
            /\ \E i \in 1..Len(lines) :
                  /\ i <= 4
                  /\ contains(lines[i], <<"*", "/">>)
                  /\ \A j \in 1..i : IsCommentLine(lines[j])
                  /\ \E j \in 1..i : AnySpelling(lines[j])
       ELSE /\ startswith(lstrip(lines[1]), <<"/", "/">>)
            /\ AnySpelling(lines[1])

\* C2: after a successful rewrite the file begins with the current header
\* of its kind, then exactly one blank line, then the original body, and
\* what follows the blank line does not begin with another header block.
C2_OneHeaderBlock ==
    RewroteArgument =>
        LET out  == readlines(disk[TheFile])
            hdr  == HeaderLinesOf(TheFile)
            n    == Len(hdr)
            rest == SubSeq(out, n + 2, Len(out))
        IN  /\ Len(out) >= n + 1
            /\ SubSeq(out, 1, n) = hdr
            /\ out[n + 1] = <<"\n">>
            /\ rest # <<>> => ~IsBlankLine(rest[1])
            /\ IsSuffix(rest, readlines(PreDisk[TheFile]))
            /\ ~BeginsWithHeader(rest, KindOf(TheFile))

\* C10: the lines a successful rewrite removes from the original file are
\* blank lines and lines of a prior header comment only, and the lines it
\* keeps follow the blank line unchanged and in their original order.
C10_BodyPreserved ==
    RewroteArgument =>
        LET pre  == readlines(PreDisk[TheFile])
            out  == readlines(disk[TheFile])
            rest == SubSeq(out, Len(HeaderLinesOf(TheFile)) + 2, Len(out))
        IN  /\ IsSuffix(rest, pre)
            /\ \A i \in 1..(Len(pre) - Len(rest)) :
                  IsBlankLine(pre[i]) \/ IsCommentLine(pre[i])

---------------------------------------------------------------------------
(* C8 *)

DigitValue(ch) == CHOOSE d \in 0..9 : DigitChars[d + 1] = ch

RECURSIVE ParseInt(_)
ParseInt(ds) ==
    IF ds = <<>> THEN 0
    ELSE 10 * ParseInt(SubSeq(ds, 1, Len(ds) - 1)) + DigitValue(ds[Len(ds)])

\* the years a header line names: the numbers between "(c) " and ","
YearsNamed(line) ==
    LET from  == Find(line, ")", 1) + 2
        to    == Find(line, ",", 1) - 1
        parts == SplitOn(SubSeq(line, from, to), "-", 1, 1)
    IN  [i \in 1..Len(parts) |-> ParseInt(parts[i])]

\* the copyright line of the header at the top of a rewritten file
CopyrightLine(file, content) ==
    readlines(content)[IF KindOf(file) = "ts" THEN 2 ELSE 1]

\* C8 as stated: the header of a rewritten file names the start year alone
\* if the current year equals the start year, and the range from the start
\* year to the current year for every other current year.
C8_AsStated ==
    RewroteArgument =>
        YearsNamed(CopyrightLine(TheFile, disk[TheFile])) =
            IF CURRENT_YEAR = START_YEAR
            THEN <<START_YEAR>>
            ELSE <<START_YEAR, CURRENT_YEAR>>

\* C8 as amended: the range is written only when the current year is later
\* than the start year; in the start year and in any earlier year the
\* header names the start year alone.
C8_YearRendering ==
    RewroteArgument =>
        YearsNamed(CopyrightLine(TheFile, disk[TheFile])) =
            IF CURRENT_YEAR > START_YEAR
            THEN <<START_YEAR, CURRENT_YEAR>>
            ELSE <<START_YEAR>>

\* a file was rewritten while the clock showed a year before the start year
C8_Witness ==
    /\ RewroteArgument
    /\ CURRENT_YEAR < START_YEAR
    /\ YearsNamed(CopyrightLine(TheFile, disk[TheFile])) = <<START_YEAR>>

---------------------------------------------------------------------------
(* Vocabulary of the properties of a run over a tree *)

\* the directory names the specification excludes
ExcludedNames ==
    { <<".", "g", "i", "t">>,
      <<"n", "o", "d", "e", "_", "m", "o", "d", "u", "l", "e", "s">>,
      <<"d", "i", "s", "t">>,
      <<"b", "u", "i", "l", "d">>,
      <<"v", "e", "n", "d", "o", "r">> }

\* the file lies below a directory with an excluded name
UnderExcluded(file) == \E i \in 1..(Len(file) - 1) : file[i] \in ExcludedNames

WrittenFiles == {w.file : w \in wlog}

VisitedFiles == {resolve(visited[i]) : i \in 1..Len(visited)}

FullTreeMode == argv = <<>>

\* the files a full-tree run rewrites: matched, reached, and not failing
Succeeds(file) ==
    /\ KindOf(file) # "none"
    /\ ~UnderExcluded(file)
    /\ faults[file] = "ok"

---------------------------------------------------------------------------
(* C4 *)

\* C4: a .go file is only ever written with the line-comment header, a .ts
\* or .tsx file only with the block-comment header, and a file with any
\* other extension (matched case-sensitively) is never opened for writing,
\* keeps its content, and is not counted as updated.
C4_KindIsolation ==
    /\ \A w \in wlog :
          /\ KindOf(w.file) = "go" => w.header = GO_HEADER
          /\ KindOf(w.file) = "ts" => w.header = TS_HEADER
    /\ \A f \in DOMAIN disk :
          /\ KindOf(f) = "go" => ~startswith(disk[f], <<"/", "*">>)
          /\ KindOf(f) = "ts" => ~startswith(disk[f], <<"/", "/", " ", "C">>)
          /\ KindOf(f) = "none" => f \notin WrittenFiles /\ disk[f] = disk0[f]
    /\ FullTreeMode /\ pc \in {"walk", "done"} =>
          updated_count <= Cardinality({f \in VisitedFiles : KindOf(f) # "none"})
    /\ ~FullTreeMode /\ pc = "done" /\ KindOf(TheFile) = "none" =>
          console = <<"No update needed">>

\* a tree holding a .ts, a .tsx, a .go and a .txt file was walked: three
\* files were written and counted, the .txt file was visited and left alone
C4_Witness ==
    /\ FullTreeMode
    /\ pc = "done"
    /\ {KindOf(f) : f \in DOMAIN disk} = {"ts", "go", "none"}
    /\ \A f \in DOMAIN disk : f \in VisitedFiles
    /\ \A f \in DOMAIN disk : KindOf(f) # "none" => f \in WrittenFiles
    /\ Cardinality(WrittenFiles) = 3
    /\ updated_count = 3

---------------------------------------------------------------------------
(* C5 *)

NeverTouchesExcluded ==
    /\ \A f \in VisitedFiles : ~UnderExcluded(f)
    /\ \A f \in DOMAIN disk :
          UnderExcluded(f) => f \notin WrittenFiles /\ disk[f] = disk0[f]

\* C5 as stated: no file below a directory named .git, node_modules, dist,
\* build or vendor is ever visited or modified by the program.
C5_AsStated == NeverTouchesExcluded

\* C5 as amended: that holds of a run in full-tree mode, for the directories
\* below the working directory; single-file mode processes the path it is
\* given wherever it lies.
C5_Exclusion == FullTreeMode => NeverTouchesExcluded

\* a tree with a matching file two levels down, below an excluded directory
\* inside a directory that is walked, was walked to the end
C5_Witness ==
    /\ FullTreeMode
    /\ pc = "done"
    /\ updated_count = 1
    /\ \E f \in DOMAIN disk :
          /\ Len(f) = 3
          /\ f[1] \notin ExcludedNames
          /\ f[2] \in ExcludedNames
          /\ KindOf(f) # "none"
          /\ faults[f] = "ok"
          /\ disk[f] = disk0[f]

---------------------------------------------------------------------------
(* C6 *)

\* a full-tree run has a next step: one of its actions is enabled (for
\* VisitFile, that process_file has an outcome for a pending file)
CanStep ==
    \/ ENABLED MainStartWalk
    \/ ENABLED WalkDir
    \/ ENABLED MainSummary
    \/ pc = "walk" /\ \E file \in files :
          \E o \in process_file(join(root, file), disk, faults) : ~o.raised

\* C6: in full-tree mode, whichever files fail to be read or written, the
\* run does not abort and can always take its next step until it has
\* printed the summary; the count it prints is the number of matched files
\* whose rewrite succeeded, and each of those files has been rewritten.
C6_ErrorIsolation ==
    FullTreeMode =>
        /\ pc # "aborted"
        /\ pc # "done" => CanStep
        /\ pc = "done" =>
              /\ console = <<"Files updated",
                             Cardinality({f \in DOMAIN disk : Succeeds(f)})>>
              /\ \A f \in DOMAIN disk : Succeeds(f) =>
                    /\ f \in WrittenFiles
                    /\ disk[f] = OutputWith(TwoSpellings, f, PreDisk[f])

\* of three matched files one could not be read; the run finished and
\* reported the other two
C6_Witness ==
    /\ FullTreeMode
    /\ pc = "done"
    /\ Cardinality({f \in DOMAIN disk : KindOf(f) # "none"}) = 3
    /\ Cardinality({f \in DOMAIN disk : KindOf(f) # "none" /\ faults[f] = "read"}) = 1
    /\ Cardinality({f \in DOMAIN disk : Succeeds(f)}) = 2
    /\ console = <<"Files updated", 2>>

---------------------------------------------------------------------------
(* C9 *)

\* what a run can leave in a file, given only that file's name, fault and
\* content before the run
FinalContents(file, before) ==
    IF KindOf(file) = "none" \/ UnderExcluded(file) \/ faults[file] \in {"read", "open_w"}
    THEN {before}
    ELSE IF faults[file] = "write"
    THEN {<<>>, writelines(HeaderLinesOf(file))}
    ELSE {OutputWith(TwoSpellings, file, before)}

\* C9: whatever order a full-tree run visits directories and files in, it
\* ends with the same count, and every file's final content is determined
\* by that file alone.
C9_OrderIndependence ==
    FullTreeMode /\ pc = "done" =>
        /\ updated_count = Cardinality({f \in DOMAIN disk : Succeeds(f)})
        /\ \A f \in DOMAIN disk : disk[f] \in FinalContents(f, PreDisk[f])

\* the four-file tree was walked c.go before a.ts and lib before src
C9_Witness ==
    /\ FullTreeMode
    /\ pc = "done"
    /\ \A f \in DOMAIN disk : faults[f] = "ok"
    /\ [i \in 1..Len(visited) |-> resolve(visited[i])] =
           << << <<"c", ".", "g", "o">> >>,
              << <<"a", ".", "t", "s">> >>,
              << <<"l", "i", "b">>, <<"e", ".", "t", "x", "t">> >>,
              << <<"s", "r", "c">>, <<"b", ".", "t", "s", "x">> >> >>
    /\ updated_count = 3

====
